---- MODULE Spec2Model ----
(***************************************************************************)
(* A model of src/src/meeting_app/cli.py: the resilient completion client  *)
(* (call_llm), the chunker (chunk_text), the language gate                 *)
(* (detect_lang_from_text), the map stage (summarize_parts), the two-level *)
(* reduce stage (summarize_final_two_step) and main: the choice and the    *)
(* validation of the models, then the cached pipeline, run again and again *)
(* on one output directory.                                                *)
(*                                                                         *)
(* A text is a sequence of symbols.  A file holds a sequence of bytes, one *)
(* symbol a byte; BadByte is a byte that does not decode as UTF-8.  The    *)
(* operations of the file system on the output directory succeed; the      *)
(* external tools (ffmpeg, mlx_whisper) and the completion endpoint may    *)
(* fail.                                                                   *)
(***************************************************************************)
EXTENDS Integers, Sequences, FiniteSets, TLC

VARIABLES
    \* ---- call_llm (one call of the completion client) ----
    RETRIES,        \* the configured attempt count
    BACKOFF_BASE,   \* the configured backoff base, a rational <<num, den>>
    attempt,        \* the loop variable of call_llm
    llm_pc,         \* "off" | "loop" | "returned" | "raised"
    sleeps,         \* the delays slept so far, in order
    outcomes,       \* what the endpoint answered to each attempt, in order
    llm_result,     \* what the call returned or raised
    \* ---- chunk_text (one call of the chunker) ----
    ck_text,        \* the text argument
    ck_size,        \* the size argument
    ck_pc,          \* "off" | "call" | "done"
    ck_out,         \* the list returned
    \* ---- detect_lang_from_text (one call of the language gate) ----
    det_sample,     \* the sample argument
    det_pc,         \* "off" | "call" | "done"
    det_out,        \* the tag returned
    \* ---- main and the summary stage ----
    pc,             \* where main is
    run,            \* the number of invocations of main so far
    args_lang,      \* --lang: "none" | "en" | "pl"
    lang,           \* the language tag of the run
    sample_text,    \* main's sample_text: the text given to detect_lang_from_text
    models,         \* main's models: the list get_models returned
    summary_model,  \* main's summary_model
    translate_model,\* main's translate_model
    fs,             \* the files of out_dir: path -> [exists, data]
    transcript,     \* main's transcript
    final_summary,  \* main's final_summary
    DEFAULT_CHUNK_SIZE, \* the configured chunk size
    parts,          \* summarize_parts: the chunks
    summaries,      \* summarize_parts: the partial summaries so far
    group_size,     \* summarize_final_two_step: group_size
    gi,             \* summarize_final_two_step: the loop variable i
    reduced,        \* summarize_final_two_step: the reduced summaries so far
    endpoint,       \* the contents the completion endpoint may answer with
    \* ---- history, read by the properties only ----
    calls,          \* the call_llm calls of the run, in order
    fs0,            \* the files of out_dir when the run started
    st,             \* per cacheable stage: what its check found, whether it ran
    prev_done,      \* whether the invocation before this one ended at GOTOWE
    whisper_sample_out, \* the bytes mlx_whisper wrote for the sample in this run
    whisper_full_out,   \* the bytes mlx_whisper wrote for the full audio in this run
    summary_of,     \* <<the transcript summary_final.txt was computed from>>, or <<>>
    translation_of  \* <<the summary summary_final_pl.txt was translated from>>, or <<>>

llmVars == <<RETRIES, BACKOFF_BASE, attempt, llm_pc, sleeps, outcomes, llm_result>>

chunkVars == <<ck_text, ck_size, ck_pc, ck_out>>

detVars == <<det_sample, det_pc, det_out>>

sumVars == <<parts, summaries, group_size, gi, reduced>>

modelVars == <<models, summary_model, translate_model>>

whisperVars == <<sample_text, whisper_sample_out, whisper_full_out>>

originVars == <<summary_of, translation_of>>

mainVars == <<pc, run, args_lang, lang, fs, transcript, final_summary,
              DEFAULT_CHUNK_SIZE, endpoint, calls, fs0, st, prev_done, modelVars,
              whisperVars, originVars>>

vars == <<llmVars, chunkVars, detVars, sumVars, mainVars>>

(***************************************************************************)
(* Bounds of the model.                                                    *)
(***************************************************************************)
MaxRetries == 4
MaxTextLen == 4
MaxChunkSize == 3
MaxParts == 13
MaxVariedParts == 5
MaxRuns == 2
MaxSampleLen == 3

(***************************************************************************)
(* Configuration (cli.py lines 27-40).                                     *)
(***************************************************************************)
PART_MAX == 500
FINAL_MAX == 900
TRANSLATE_MAX == 900

Min(a, b) == IF a < b THEN a ELSE b
Max(a, b) == IF a > b THEN a ELSE b

(***************************************************************************)
(* call_llm                                                                *)
(***************************************************************************)
\* RETRIES = int(os.environ.get("RETRIES", "4")): any integer, 4 by default.
RetriesValues == -1 .. MaxRetries

\* BACKOFF_BASE = float(os.environ.get("BACKOFF_BASE", "1.5")): 3/2 by default.
BackoffBases == { <<3, 2>>, <<2, 1>> }

\* The statuses call_llm retries on.
RetryableStatuses == {429, 500, 503, 504}

\* The HTTP error statuses the endpoint answers with in the model.
HttpErrorStatuses == RetryableStatuses \cup {400, 404, 502}

\* The bodies of the endpoint's error responses.
Bodies == {"body1", "body2"}

\* The message contents of the endpoint's well-formed responses.
Contents == {"content1", "content2"}

\* What one attempt's _post_chat and the read of choices[0].message.content
\* can end with: a well-formed response, an HTTPError, a transport failure
\* (URLError, timeout), or a response that does not decode or lacks the field.
OkOutcome(c) == [kind |-> "ok", code |-> 200, body |-> c]
HttpOutcome(code, b) == [kind |-> "http", code |-> code, body |-> b]
TransportOutcome == [kind |-> "transport", code |-> 0, body |-> ""]
MalformedOutcome == [kind |-> "malformed", code |-> 200, body |-> ""]

RECURSIVE IntPow(_, _)
IntPow(b, k) == IF k <= 0 THEN 1 ELSE b * IntPow(b, k - 1)

\* base ** k for a rational base <<num, den>>.
RatPow(base, k) == << IntPow(base[1], k), IntPow(base[2], k) >>

\* sleep_s = BACKOFF_BASE ** attempt
backoff_delay_prev(base, att) == RatPow(base, att - 1)
backoff_delay(base, att) == RatPow(base, att)

\* e.code in (429, 500, 503, 504) and attempt < RETRIES
retry_http_any_status(code, att, retries) == att < retries
retry_http(code, att, retries) == code \in RetryableStatuses /\ att < retries

NoResult == [kind |-> "none", code |-> 0, text |-> ""]
Returned(c) == [kind |-> "content", code |-> 200, text |-> c]
\* RuntimeError(f"LM Studio HTTP {e.code}: {body}")
HttpRuntimeError(code, b) == [kind |-> "http_error", code |-> code, text |-> b]
\* RuntimeError(f"LM Studio error: {e}")
OtherRuntimeError(k) == [kind |-> "error", code |-> 0, text |-> k]

(***************************************************************************)
(* chunk_text                                                              *)
(***************************************************************************)
\* list(range(start, stop, step)) for step > 0
RECURSIVE PyRange(_, _, _)
PyRange(start, stop, step) ==
    IF start >= stop THEN <<>> ELSE <<start>> \o PyRange(start + step, stop, step)

\* seq[a:b] for 0 <= a: the items at 0-based positions a .. min(b, len) - 1
PySlice(seq, a, b) == SubSeq(seq, a + 1, Min(b, Len(seq)))

\* return [text[i:i + size] for i in range(0, len(text), size)]
chunk_text_short(text, size) ==
    LET starts == PyRange(0, Len(text), size)
    IN  [k \in 1..Len(starts) |-> PySlice(text, starts[k], starts[k] + size - 1)]
chunk_text(text, size) ==
    LET starts == PyRange(0, Len(text), size)
    IN  [k \in 1..Len(starts) |-> PySlice(text, starts[k], starts[k] + size)]

\* The symbols of the texts given to the chunker.
Symbols == {"a", "b"}

RECURSIVE SeqsUpTo(_, _)
SeqsUpTo(S, n) ==
    IF n = 0 THEN { <<>> }
    ELSE LET shorter == SeqsUpTo(S, n - 1)
         IN  shorter \cup { Append(q, x) : q \in shorter, x \in S }

(***************************************************************************)
(* The models of the endpoint and the choice of the two model ids          *)
(***************************************************************************)
QWEN == "qwen/qwen3-vl-8b"
BIELIK == "bielik-1.5b-v3.0-instruct"

\* DEFAULT_SUMMARY_MODEL, DEFAULT_TRANSLATE_MODEL: the environment's value, which
\* may be the empty string, or else the built-in id.
SummaryDefaults == {QWEN, ""}
TranslateDefaults == {BIELIK, ""}

\* What GET /v1/models may list.
ModelLists == { <<>>, <<BIELIK>>, <<QWEN, BIELIK>> }

Range(seq) == { seq[i] : i \in 1..Len(seq) }

\* What the user types at "Wybor (Enter = domyslny)", stripped: nothing, a
\* decimal integer, or a text int() does not parse.
RawEmpty == [kind |-> "empty", n |-> 0]
RawText == [kind |-> "text", n |-> 0]
RawInt(n) == [kind |-> "int", n |-> n]
Raws == {RawEmpty, RawText} \cup { RawInt(n) : n \in -1..3 }

\* The IndexError of options[0] on an empty list, raised out of the except clause.
IndexError == "<IndexError>"

\* options[i] of Python: i counts from 0, a negative i from the end.
PyIndexable(seq, i) == -Len(seq) <= i /\ i < Len(seq)
PyItem(seq, i) == IF i >= 0 THEN seq[i + 1] ELSE seq[Len(seq) + i + 1]

\* choose_from_list(title, options, default)
choose_from_list(options, default, raw) ==
    IF raw.kind = "empty" /\ default # "" THEN default
    ELSE IF raw.kind = "int" /\ PyIndexable(options, raw.n - 1) THEN PyItem(options, raw.n - 1)
    ELSE IF default # "" THEN default
    ELSE IF options # <<>> THEN options[1]
    ELSE IndexError

\* require_model_exists: TRUE when it returns, FALSE when it calls die
require_model_exists_nothing(model_id, ms) == TRUE
require_model_exists(model_id, ms) == model_id \in Range(ms)

(***************************************************************************)
(* Texts, files and the language gate                                      *)
(***************************************************************************)
\* A byte that does not decode as UTF-8.
BadByte == "<bad byte>"

\* chr(10)
NewLine == "\n"

WAV_PATH == "audio.wav"
SAMPLE_WAV == "sample.wav"
TRANSCRIPT_FILE == "transcript.txt"
SUMMARY_FILE == "summary_final.txt"
SUMMARY_PL_FILE == "summary_final_pl.txt"

\* mlx_whisper names its output after the audio file it was given.
WhisperOut(wav) == IF wav = SAMPLE_WAV THEN "sample.txt" ELSE "audio.txt"

TxtPaths == {"sample.txt", "audio.txt", TRANSCRIPT_FILE, SUMMARY_FILE, SUMMARY_PL_FILE}
Paths == TxtPaths \cup {WAV_PATH, SAMPLE_WAV}

NoFile == [exists |-> FALSE, data |-> <<>>]
File(data) == [exists |-> TRUE, data |-> data]
EmptyDir == [p \in Paths |-> NoFile]

\* path.read_text(encoding="utf-8", errors="ignore"): undecodable bytes are dropped
read_text_utf8(files, path) == SelectSeq(files[path].data, LAMBDA b : b # BadByte)

\* path.write_text(text, encoding="utf-8")
write_text_utf8_nothing(files, path, text) == files
write_text_utf8(files, path, text) == [files EXCEPT ![path] = File(text)]

\* path.unlink() of a file that exists
unlink_nothing(files, path) == files
unlink(files, path) == [files EXCEPT ![path] = NoFile]

\* p.stat().st_size
st_size(files, path) == Len(files[path].data)

\* list(out_dir.glob("*.txt"))
find_txts(files) == { p \in TxtPaths : files[p].exists }

\* max(txts, key=lambda p: p.stat().st_size): the first of the largest in the
\* order glob lists them, which is any of the largest.
find_biggest_txt(files) ==
    { p \in find_txts(files) :
        \A q \in find_txts(files) : st_size(files, q) <= st_size(files, p) }

\* cleanup_sample_files: unlink every sample.wav and every *.txt of out_dir
cleanup_sample_files(files) ==
    [p \in Paths |-> IF p = SAMPLE_WAV \/ p \in TxtPaths THEN NoFile ELSE files[p]]

\* The symbols of a transcript: a symbol is a word or a letter.  "sie~" stands
\* for a Polish stop word written with one diacritic, "l~" for a lone
\* diacritic letter.
PlStopWords == {"nie", "jest", "sie~"}
EnStopWords == {"the", "and"}
PlCharsIn(sym) == IF sym \in {"sie~", "l~"} THEN 1 ELSE 0

\* s = sample.lower(): "Nie" and "The" are the stop words capitalised.
Lower(sym) == IF sym = "Nie" THEN "nie" ELSE IF sym = "The" THEN "the" ELSE sym

\* sum(1 for c in sample if c in PL_CHARS)
RECURSIVE CountPlChars(_)
CountPlChars(sample) ==
    IF sample = <<>> THEN 0 ELSE PlCharsIn(Head(sample)) + CountPlChars(Tail(sample))

\* detect_lang_from_text
detect_lang_from_text_strict(sample) ==
    LET pl_char_hits == CountPlChars(sample)
        pl_words == Len(SelectSeq(sample, LAMBDA w : Lower(w) \in PlStopWords))
        en_words == Len(SelectSeq(sample, LAMBDA w : Lower(w) \in EnStopWords))
        score_pl == pl_char_hits * 2 + pl_words
    IN  IF score_pl > Max(2, en_words) THEN "pl" ELSE "en"
detect_lang_from_text(sample) ==
    LET pl_char_hits == CountPlChars(sample)
        pl_words == Len(SelectSeq(sample, LAMBDA w : Lower(w) \in PlStopWords))
        en_words == Len(SelectSeq(sample, LAMBDA w : Lower(w) \in EnStopWords))
        score_pl == pl_char_hits * 2 + pl_words
    IN  IF score_pl >= Max(2, en_words) THEN "pl" ELSE "en"

\* The symbols of the samples given to the language gate: "x" is a word that
\* is no stop word and has no diacritic.
LangSymbols == {"nie", "Nie", "sie~", "l~", "the", "The", "x"}

\* What mlx_whisper writes for the 60-second sample, and for the full audio.
SampleTexts == { <<"nie", "jest">>, <<"the", "and", "the">> }
FullTexts == { <<"the", BadByte>>, <<"nie", "jest", "nie">> }

\* What the completion endpoint answers with.
VariedEndpoint == { <<"r1">>, <<"r2", "r2", "r2", "r2">> }
FixedEndpoint == { <<"r1">> }

(***************************************************************************)
(* The prompts of the map, reduce, final and translation calls             *)
(***************************************************************************)
\* chr(10).join(items)
RECURSIVE Join(_)
Join(items) ==
    IF items = <<>> THEN <<>>
    ELSE IF Len(items) = 1 THEN items[1]
    ELSE items[1] \o <<NewLine>> \o Join(Tail(items))

\* The templates are those of the language tag "pl", or else the English ones.
TemplateLang(l) == IF l = "pl" THEN "pl" ELSE "en"

\* One call of call_llm: the template it fills, the texts it was given, the
\* text put into the template, its token ceiling, and how it ended.
Call(kind, model_id, l, inputs, items, max_tokens, ok, out) ==
    [kind |-> kind, model |-> model_id, tpl |-> l, inputs |-> inputs, items |-> items,
     max_tokens |-> max_tokens, ok |-> ok, out |-> out]

\* summarize_parts: call_llm(model_id, [system_msg, user_tpl.format(part=part)], PART_MAX)
MapCallOf(model_id, part, l, ok, out) ==
    Call("map", model_id, TemplateLang(l), <<part>>, part, PART_MAX, ok, out)

\* summarize_final_two_step: reduce_user_tpl.format(items=chr(10).join(group))
ReduceCallOf(model_id, group, l, ok, out) ==
    Call("reduce", model_id, TemplateLang(l), group, Join(group), PART_MAX, ok, out)

\* summarize_final_two_step: final_user_tpl.format(items=chr(10).join(reduced))
FinalCallOf(model_id, red, l, ok, out) ==
    Call("final", model_id, TemplateLang(l), red, Join(red), FINAL_MAX, ok, out)

\* translate_to_pl
TranslateCallOf(model_id, text, ok, out) ==
    Call("translate", model_id, "pl", <<text>>, text, TRANSLATE_MAX, ok, out)

\* summarize_parts: the chunk the next call is made for
next_part(ps, sums) == ps[Len(sums) + 1]

\* summaries.append(call_llm(...))
append_summary_front(sums, out) == <<out>> \o sums
append_summary(sums, out) == Append(sums, out)

\* summarize_final_two_step: group_size from n = len(partial_summaries)
group_size_monotonic(n) == IF n <= 6 THEN 3 ELSE 4
group_size_for(n) == IF n <= 6 THEN 3 ELSE IF n <= 12 THEN 4 ELSE 3

\* group = partial_summaries[i:i + group_size]
group_at(sums, i, gs) == PySlice(sums, i, i + gs)

\* reduced.append(reduced_summary)
append_reduced_front(red, out) == <<out>> \o red
append_reduced(red, out) == Append(red, out)

(***************************************************************************)
(* Idle values of the parts a specification does not run                   *)
(***************************************************************************)
Stages == {"transcript", "summary", "translation"}
NotChecked == [check |-> "none", ran |-> FALSE]

LLMIdle ==
    /\ RETRIES = 4
    /\ BACKOFF_BASE = <<3, 2>>
    /\ attempt = 1
    /\ llm_pc = "off"
    /\ sleeps = <<>>
    /\ outcomes = <<>>
    /\ llm_result = NoResult

ChunkIdle ==
    /\ ck_text = <<>>
    /\ ck_size = 1
    /\ ck_pc = "off"
    /\ ck_out = <<>>

DetIdle ==
    /\ det_sample = <<>>
    /\ det_pc = "off"
    /\ det_out = "none"

SumIdle ==
    /\ parts = <<>>
    /\ summaries = <<>>
    /\ group_size = 0
    /\ gi = 0
    /\ reduced = <<>>

MainIdle ==
    /\ pc = "off"
    /\ run = 0
    /\ args_lang = "none"
    /\ lang = "none"
    /\ fs = EmptyDir
    /\ transcript = <<>>
    /\ final_summary = <<>>
    /\ DEFAULT_CHUNK_SIZE = 4000
    /\ endpoint = FixedEndpoint
    /\ calls = <<>>
    /\ fs0 = EmptyDir
    /\ st = [s \in Stages |-> NotChecked]
    /\ prev_done = FALSE
    /\ models = <<>>
    /\ summary_model = ""
    /\ translate_model = ""
    /\ sample_text = <<>>
    /\ whisper_sample_out = <<>>
    /\ whisper_full_out = <<>>
    /\ summary_of = <<>>
    /\ translation_of = <<>>

(***************************************************************************)
(* Specification SpecLLM: one call of call_llm                             *)
(***************************************************************************)
LLMInit ==
    /\ ChunkIdle /\ DetIdle /\ SumIdle /\ MainIdle
    /\ RETRIES \in RetriesValues
    /\ BACKOFF_BASE \in BackoffBases
    /\ attempt = 1
    /\ llm_pc = "loop"
    /\ sleeps = <<>>
    /\ outcomes = <<>>
    /\ llm_result = NoResult

\* for attempt in range(1, RETRIES + 1): the range is exhausted, the function
\* falls off its end and returns None.
LoopExhausted ==
    /\ llm_pc = "loop"
    /\ attempt > RETRIES
    /\ llm_pc' = "returned"
    /\ llm_result' = NoResult
    /\ UNCHANGED <<RETRIES, BACKOFF_BASE, attempt, sleeps, outcomes>>
    /\ UNCHANGED <<chunkVars, detVars, sumVars, mainVars>>

\* out = _post_chat(payload); return out["choices"][0]["message"]["content"]
AttemptOk(c) ==
    /\ llm_pc = "loop"
    /\ attempt <= RETRIES
    /\ outcomes' = Append(outcomes, OkOutcome(c))
    /\ llm_pc' = "returned"
    /\ llm_result' = Returned(c)
    /\ UNCHANGED <<RETRIES, BACKOFF_BASE, attempt, sleeps>>
    /\ UNCHANGED <<chunkVars, detVars, sumVars, mainVars>>

\* except urllib.error.HTTPError as e
AttemptHTTPError(code, b) ==
    /\ llm_pc = "loop"
    /\ attempt <= RETRIES
    /\ outcomes' = Append(outcomes, HttpOutcome(code, b))
    /\ IF retry_http(code, attempt, RETRIES)
       THEN /\ sleeps' = Append(sleeps, backoff_delay(BACKOFF_BASE, attempt))
            /\ attempt' = attempt + 1
            /\ UNCHANGED <<llm_pc, llm_result>>
       ELSE /\ llm_pc' = "raised"
            /\ llm_result' = HttpRuntimeError(code, b)
            /\ UNCHANGED <<sleeps, attempt>>
    /\ UNCHANGED <<RETRIES, BACKOFF_BASE>>
    /\ UNCHANGED <<chunkVars, detVars, sumVars, mainVars>>

\* except Exception as e: every other failure of the attempt
AttemptException_returns_malformed(o) ==
    /\ llm_pc = "loop"
    /\ attempt <= RETRIES
    /\ outcomes' = Append(outcomes, o)
    /\ IF o = MalformedOutcome
       THEN /\ llm_pc' = "returned"
            /\ llm_result' = Returned(o.body)
            /\ UNCHANGED <<sleeps, attempt>>
       ELSE IF attempt < RETRIES
       THEN /\ sleeps' = Append(sleeps, backoff_delay(BACKOFF_BASE, attempt))
            /\ attempt' = attempt + 1
            /\ UNCHANGED <<llm_pc, llm_result>>
       ELSE /\ llm_pc' = "raised"
            /\ llm_result' = OtherRuntimeError(o.kind)
            /\ UNCHANGED <<sleeps, attempt>>
    /\ UNCHANGED <<RETRIES, BACKOFF_BASE>>
    /\ UNCHANGED <<chunkVars, detVars, sumVars, mainVars>>
AttemptException(o) ==
    /\ llm_pc = "loop"
    /\ attempt <= RETRIES
    /\ outcomes' = Append(outcomes, o)
    /\ IF attempt < RETRIES
       THEN /\ sleeps' = Append(sleeps, backoff_delay(BACKOFF_BASE, attempt))
            /\ attempt' = attempt + 1
            /\ UNCHANGED <<llm_pc, llm_result>>
       ELSE /\ llm_pc' = "raised"
            /\ llm_result' = OtherRuntimeError(o.kind)
            /\ UNCHANGED <<sleeps, attempt>>
    /\ UNCHANGED <<RETRIES, BACKOFF_BASE>>
    /\ UNCHANGED <<chunkVars, detVars, sumVars, mainVars>>

LLMNext ==
    \/ LoopExhausted
    \/ \E c \in Contents : AttemptOk(c)
    \/ \E code \in HttpErrorStatuses, b \in Bodies : AttemptHTTPError(code, b)
    \/ \E o \in {TransportOutcome, MalformedOutcome} : AttemptException(o)

SpecLLM == LLMInit /\ [][LLMNext]_vars

(***************************************************************************)
(* Specification SpecChunk: one call of chunk_text                         *)
(***************************************************************************)
ChunkInit ==
    /\ LLMIdle /\ DetIdle /\ SumIdle /\ MainIdle
    /\ ck_text \in SeqsUpTo(Symbols, MaxTextLen)
    /\ ck_size \in 1..MaxChunkSize
    /\ ck_pc = "call"
    /\ ck_out = <<>>

ChunkCall ==
    /\ ck_pc = "call"
    /\ ck_out' = chunk_text(ck_text, ck_size)
    /\ ck_pc' = "done"
    /\ UNCHANGED <<ck_text, ck_size>>
    /\ UNCHANGED <<llmVars, detVars, sumVars, mainVars>>

ChunkNext == ChunkCall

SpecChunk == ChunkInit /\ [][ChunkNext]_vars

(***************************************************************************)
(* Specification SpecLang: one call of detect_lang_from_text               *)
(***************************************************************************)
DetInit ==
    /\ LLMIdle /\ ChunkIdle /\ SumIdle /\ MainIdle
    /\ det_sample \in SeqsUpTo(LangSymbols, MaxSampleLen)
    /\ det_pc = "call"
    /\ det_out = "none"

DetectCall ==
    /\ det_pc = "call"
    /\ det_out' = detect_lang_from_text(det_sample)
    /\ det_pc' = "done"
    /\ UNCHANGED det_sample
    /\ UNCHANGED <<llmVars, chunkVars, sumVars, mainVars>>

DetNext == DetectCall

SpecLang == DetInit /\ [][DetNext]_vars

(***************************************************************************)
(* The summary stage: summarize_parts, then summarize_final_two_step       *)
(* (main, lines 519-520 and 524-525)                                       *)
(***************************************************************************)
keepMain == <<run, args_lang, lang, fs, transcript, DEFAULT_CHUNK_SIZE, endpoint,
              fs0, st, prev_done, modelVars, whisperVars, originVars>>

\* summarize_parts: parts = chunk_text(text, chunk_size); summaries = []
SummarizePartsStart ==
    /\ pc = "summarize"
    /\ parts' = chunk_text(transcript, DEFAULT_CHUNK_SIZE)
    /\ summaries' = <<>>
    /\ pc' = "map"
    /\ UNCHANGED <<group_size, gi, reduced, calls, final_summary>>
    /\ UNCHANGED <<keepMain, llmVars, chunkVars, detVars>>

\* for part in tqdm(parts): summaries.append(call_llm(...)), the call returning
MapCall(out) ==
    /\ pc = "map"
    /\ Len(summaries) < Len(parts)
    /\ calls' = Append(calls,
                          MapCallOf(summary_model, next_part(parts, summaries), lang, TRUE, out))
    /\ summaries' = append_summary(summaries, out)
    /\ UNCHANGED <<pc, parts, group_size, gi, reduced, final_summary>>
    /\ UNCHANGED <<keepMain, llmVars, chunkVars, detVars>>

\* the same call raising: the error leaves summarize_parts and main
MapCallRaises_skips_chunk ==
    /\ pc = "map"
    /\ Len(summaries) < Len(parts)
    /\ calls' = Append(calls,
                          MapCallOf(summary_model, next_part(parts, summaries), lang, FALSE, <<>>))
    /\ summaries' = append_summary(summaries, <<>>)
    /\ UNCHANGED <<pc, parts, group_size, gi, reduced, final_summary>>
    /\ UNCHANGED <<keepMain, llmVars, chunkVars, detVars>>
MapCallRaises ==
    /\ pc = "map"
    /\ Len(summaries) < Len(parts)
    /\ calls' = Append(calls,
                          MapCallOf(summary_model, next_part(parts, summaries), lang, FALSE, <<>>))
    /\ pc' = "crashed"
    /\ UNCHANGED <<parts, summaries, group_size, gi, reduced, final_summary>>
    /\ UNCHANGED <<keepMain, llmVars, chunkVars, detVars>>

\* return summaries; summarize_final_two_step: n, group_size, reduced = []
SummarizeFinalStart ==
    /\ pc = "map"
    /\ Len(summaries) = Len(parts)
    /\ group_size' = group_size_for(Len(summaries))
    /\ reduced' = <<>>
    /\ gi' = 0
    /\ pc' = "reduce"
    /\ UNCHANGED <<parts, summaries, calls, final_summary>>
    /\ UNCHANGED <<keepMain, llmVars, chunkVars, detVars>>

\* for i in range(0, n, group_size): one group's call, returning
ReduceCall(out) ==
    /\ pc = "reduce"
    /\ gi < Len(summaries)
    /\ calls' = Append(calls,
                          ReduceCallOf(summary_model, group_at(summaries, gi, group_size), lang, TRUE, out))
    /\ reduced' = append_reduced(reduced, out)
    /\ gi' = gi + group_size
    /\ UNCHANGED <<pc, parts, summaries, group_size, final_summary>>
    /\ UNCHANGED <<keepMain, llmVars, chunkVars, detVars>>

ReduceCallRaises ==
    /\ pc = "reduce"
    /\ gi < Len(summaries)
    /\ calls' = Append(calls,
                          ReduceCallOf(summary_model, group_at(summaries, gi, group_size), lang, FALSE, <<>>))
    /\ pc' = "crashed"
    /\ UNCHANGED <<parts, summaries, group_size, gi, reduced, final_summary>>
    /\ UNCHANGED <<keepMain, llmVars, chunkVars, detVars>>

\* the loop is over: final_summary = call_llm(...); return final_summary
FinalCall(out) ==
    /\ pc = "reduce"
    /\ gi >= Len(summaries)
    /\ calls' = Append(calls, FinalCallOf(summary_model, reduced, lang, TRUE, out))
    /\ final_summary' = out
    /\ pc' = "summary_write"
    /\ UNCHANGED <<parts, summaries, group_size, gi, reduced>>
    /\ UNCHANGED <<keepMain, llmVars, chunkVars, detVars>>

FinalCallRaises ==
    /\ pc = "reduce"
    /\ gi >= Len(summaries)
    /\ calls' = Append(calls, FinalCallOf(summary_model, reduced, lang, FALSE, <<>>))
    /\ pc' = "crashed"
    /\ UNCHANGED <<parts, summaries, group_size, gi, reduced, final_summary>>
    /\ UNCHANGED <<keepMain, llmVars, chunkVars, detVars>>

SumNext ==
    \/ SummarizePartsStart
    \/ \E out \in endpoint : MapCall(out)
    \/ MapCallRaises
    \/ SummarizeFinalStart
    \/ \E out \in endpoint : ReduceCall(out)
    \/ ReduceCallRaises
    \/ \E out \in endpoint : FinalCall(out)
    \/ FinalCallRaises

\* A transcript of n symbols, each its own.
PosText(n) == [i \in 1..n |-> "s" \o ToString(i)]

\* The transcripts, chunk sizes and endpoints the summary stage is run on: up
\* to MaxVariedParts chunks against an endpoint of two answers, up to MaxParts
\* chunks against an endpoint of one, and 9000 symbols in chunks of 4000.
SumCases ==
    { <<PosText(n), 1, VariedEndpoint>> : n \in 0..MaxVariedParts }
    \cup { <<PosText(n), 1, FixedEndpoint>> : n \in (MaxVariedParts + 1)..MaxParts }
    \cup { <<PosText(9000), 4000, VariedEndpoint>> }

\* main at line 524: the transcript is written, summary_final.txt is absent.
SumInit ==
    /\ LLMIdle /\ ChunkIdle /\ DetIdle /\ SumIdle
    /\ \E c \in SumCases :
          /\ transcript = c[1]
          /\ DEFAULT_CHUNK_SIZE = c[2]
          /\ endpoint = c[3]
          /\ fs = [EmptyDir EXCEPT ![WAV_PATH] = File(<<>>),
                                   ![WhisperOut(WAV_PATH)] = File(c[1]),
                                   ![TRANSCRIPT_FILE] = File(c[1])]
          /\ whisper_full_out = c[1]
    /\ pc = "summarize"
    /\ run = 1
    /\ args_lang \in {"en", "pl"}
    /\ lang = args_lang
    /\ final_summary = <<>>
    /\ calls = <<>>
    /\ fs0 = EmptyDir
    /\ st = [s \in Stages |->
               IF s = "transcript" THEN [check |-> "absent", ran |-> TRUE]
               ELSE IF s = "summary" THEN [check |-> "absent", ran |-> FALSE]
               ELSE NotChecked]
    /\ prev_done = FALSE
    /\ models = <<QWEN, BIELIK>>
    /\ summary_model = QWEN
    /\ translate_model = BIELIK
    /\ sample_text = <<>>
    /\ whisper_sample_out = <<>>
    /\ summary_of = <<>>
    /\ translation_of = <<>>

SpecSum == SumInit /\ [][SumNext]_vars

(***************************************************************************)
(* main, invoked again and again on the same input file                    *)
(***************************************************************************)
keepSum == <<parts, summaries, group_size, gi, reduced>>

Checked(stage, found) == [st EXCEPT ![stage] = [check |-> found, ran |-> FALSE]]
Ran(stage, found) == [st EXCEPT ![stage] = [check |-> found, ran |-> TRUE]]

\* What a stage's check finds when the stage is to run: no artifact, or an
\* artifact the user declines to reuse.
ToRun(path) == IF fs[path].exists THEN "declined" ELSE "absent"

\* try: path.unlink() of an artifact the user declined
unlink_declined(files, path) == IF files[path].exists THEN unlink(files, path) ELSE files

\* python cli.py --file F [--lang L]: a new invocation; the files of out_dir
\* are those the invocations before left.
StartRun(a) ==
    /\ pc \in {"off", "done", "crashed", "died"}
    /\ run < MaxRuns
    /\ run' = run + 1
    /\ args_lang' = a
    /\ lang' = "none"
    /\ transcript' = <<>>
    /\ final_summary' = <<>>
    /\ parts' = <<>> /\ summaries' = <<>> /\ group_size' = 0 /\ gi' = 0 /\ reduced' = <<>>
    /\ calls' = <<>>
    /\ fs0' = fs
    /\ st' = [s \in Stages |-> NotChecked]
    /\ prev_done' = (pc = "done")
    /\ models' = <<>>
    /\ summary_model' = ""
    /\ translate_model' = ""
    /\ sample_text' = <<>>
    /\ whisper_sample_out' = <<>>
    /\ whisper_full_out' = <<>>
    /\ pc' = "startup"
    /\ UNCHANGED <<fs, DEFAULT_CHUNK_SIZE, endpoint, llmVars, chunkVars, detVars, originVars>>

\* What the steps of main before the stages leave alone.
keepRun == <<run, args_lang, lang, fs, transcript, final_summary, DEFAULT_CHUNK_SIZE,
             endpoint, calls, fs0, st, prev_done, keepSum, llmVars, chunkVars, detVars,
             whisperVars, originVars>>

\* ensure_tool("ffmpeg"), ensure_mlx_whisper(): a tool is missing, die
ToolMissing ==
    /\ pc = "startup"
    /\ pc' = "died"
    /\ UNCHANGED <<keepRun, modelVars>>

\* models = get_models()
GetModels(listed) ==
    /\ pc = "startup"
    /\ models' = listed
    /\ pc' = "choose"
    /\ UNCHANGED <<keepRun, summary_model, translate_model>>

\* get_models: the request fails or the answer does not decode, die
GetModelsFails ==
    /\ pc = "startup"
    /\ pc' = "died"
    /\ UNCHANGED <<keepRun, modelVars>>

\* summary_model = choose_from_list(...); translate_model = choose_from_list(...)
ChooseModels(summary_default, summary_raw, translate_default, translate_raw) ==
    /\ pc = "choose"
    /\ LET chosen == choose_from_list(models, summary_default, summary_raw)
       IN  /\ summary_model' = chosen
           /\ IF chosen = IndexError
              THEN /\ pc' = "crashed"
                   /\ UNCHANGED translate_model
              ELSE LET second == choose_from_list(models, translate_default, translate_raw)
                   IN  /\ translate_model' = second
                       /\ pc' = IF second = IndexError THEN "crashed" ELSE "require"
    /\ UNCHANGED <<keepRun, models>>

\* require_model_exists(summary_model, models); require_model_exists(translate_model, models)
RequireModels ==
    /\ pc = "require"
    /\ pc' = IF /\ require_model_exists(summary_model, models)
                /\ require_model_exists(translate_model, models)
             THEN "file"
             ELSE "died"
    /\ UNCHANGED <<keepRun, modelVars>>

\* the input file exists and its suffix is supported; out_dir.mkdir
FileAccepted ==
    /\ pc = "file"
    /\ pc' = "audio"
    /\ UNCHANGED <<keepRun, modelVars>>

\* the input file does not exist or its suffix is not supported, die
FileRejected ==
    /\ pc = "file"
    /\ pc' = "died"
    /\ UNCHANGED <<keepRun, modelVars>>

\* [1/4] if not wav_path.exists(): extract_audio(file_path, wav_path)
AudioStage ==
    /\ pc = "audio"
    /\ fs' = IF fs[WAV_PATH].exists THEN fs ELSE [fs EXCEPT ![WAV_PATH] = File(<<>>)]
    /\ pc' = "lang"
    /\ UNCHANGED <<run, args_lang, lang, transcript, final_summary, DEFAULT_CHUNK_SIZE,
                   endpoint, calls, fs0, st, prev_done, keepSum, llmVars, chunkVars,
                   detVars, modelVars, whisperVars, originVars>>

\* extract_audio: ffmpeg fails, run_cmd raises
ExtractAudioFails ==
    /\ pc = "audio"
    /\ ~fs[WAV_PATH].exists
    /\ pc' = "crashed"
    /\ UNCHANGED <<run, args_lang, lang, fs, transcript, final_summary, DEFAULT_CHUNK_SIZE,
                   endpoint, calls, fs0, st, prev_done, keepSum, llmVars, chunkVars,
                   detVars, modelVars, whisperVars, originVars>>

\* [2/4] if args.lang: lang = args.lang
LangForced ==
    /\ pc = "lang"
    /\ args_lang # "none"
    /\ lang' = args_lang
    /\ pc' = "transcript"
    /\ UNCHANGED <<run, args_lang, fs, transcript, final_summary, DEFAULT_CHUNK_SIZE,
                   endpoint, calls, fs0, st, prev_done, keepSum, llmVars, chunkVars,
                   detVars, modelVars, whisperVars, originVars>>

\* [2/4] else: extract_audio_sample; whisper_transcribe(sample_wav); find_biggest_txt;
\* read_text_utf8; detect_lang_from_text; cleanup_sample_files
LangDetect(sample, biggest) ==
    /\ pc = "lang"
    /\ args_lang = "none"
    /\ LET sampled == [fs EXCEPT ![SAMPLE_WAV] = File(<<>>),
                                 ![WhisperOut(SAMPLE_WAV)] = File(sample)]
       IN  /\ biggest \in find_biggest_txt(sampled)
           /\ sample_text' = read_text_utf8(sampled, biggest)
           /\ lang' = detect_lang_from_text(sample_text')
           /\ fs' = cleanup_sample_files(sampled)
    /\ whisper_sample_out' = sample
    /\ summary_of' = <<>>
    /\ translation_of' = <<>>
    /\ pc' = "transcript"
    /\ UNCHANGED <<run, args_lang, transcript, final_summary, DEFAULT_CHUNK_SIZE,
                   endpoint, calls, fs0, st, prev_done, keepSum, llmVars, chunkVars, detVars,
                   modelVars, whisper_full_out>>

\* whisper_transcribe(sample_wav): mlx_whisper fails, run_cmd raises
LangDetectFails ==
    /\ pc = "lang"
    /\ args_lang = "none"
    /\ fs' = [fs EXCEPT ![SAMPLE_WAV] = File(<<>>)]
    /\ pc' = "crashed"
    /\ UNCHANGED <<run, args_lang, lang, transcript, final_summary, DEFAULT_CHUNK_SIZE,
                   endpoint, calls, fs0, st, prev_done, keepSum, llmVars, chunkVars,
                   detVars, modelVars, whisperVars, originVars>>

\* [3/4] transcript.txt exists and the user accepts it
TranscriptReuse ==
    /\ pc = "transcript"
    /\ fs[TRANSCRIPT_FILE].exists
    /\ transcript' = read_text_utf8(fs, TRANSCRIPT_FILE)
    /\ st' = Checked("transcript", "accepted")
    /\ pc' = "summary"
    /\ UNCHANGED <<run, args_lang, lang, fs, final_summary, DEFAULT_CHUNK_SIZE,
                   endpoint, calls, fs0, prev_done, keepSum, llmVars, chunkVars, detVars,
                   modelVars, whisperVars, originVars>>

\* [3/4] transcript.txt is absent, or the user declines it (unlink):
\* whisper_transcribe(wav_path); find_biggest_txt; read_text_utf8; write_text_utf8
TranscriptRun(full, biggest) ==
    /\ pc = "transcript"
    /\ LET transcribed == [unlink_declined(fs, TRANSCRIPT_FILE)
                              EXCEPT ![WhisperOut(WAV_PATH)] = File(full)]
           text == read_text_utf8(transcribed, biggest)
       IN  /\ biggest \in find_biggest_txt(transcribed)
           /\ transcript' = text
           /\ fs' = write_text_utf8(transcribed, TRANSCRIPT_FILE, text)
    /\ whisper_full_out' = full
    /\ st' = Ran("transcript", ToRun(TRANSCRIPT_FILE))
    /\ pc' = "summary"
    /\ UNCHANGED <<run, args_lang, lang, final_summary, DEFAULT_CHUNK_SIZE,
                   endpoint, calls, fs0, prev_done, keepSum, llmVars, chunkVars, detVars,
                   modelVars, sample_text, whisper_sample_out, originVars>>

\* whisper_transcribe(wav_path): mlx_whisper fails, run_cmd raises
TranscriptFails ==
    /\ pc = "transcript"
    /\ fs' = unlink_declined(fs, TRANSCRIPT_FILE)
    /\ st' = Checked("transcript", ToRun(TRANSCRIPT_FILE))
    /\ pc' = "crashed"
    /\ UNCHANGED <<run, args_lang, lang, transcript, final_summary, DEFAULT_CHUNK_SIZE,
                   endpoint, calls, fs0, prev_done, keepSum, llmVars, chunkVars, detVars,
                   modelVars, whisperVars, originVars>>

\* [4/4] summary_final.txt exists and the user accepts it
SummaryReuse_reads_transcript ==
    /\ pc = "summary"
    /\ fs[SUMMARY_FILE].exists
    /\ final_summary' = read_text_utf8(fs, TRANSCRIPT_FILE)
    /\ st' = Checked("summary", "accepted")
    /\ pc' = "translate"
    /\ UNCHANGED <<run, args_lang, lang, fs, transcript, DEFAULT_CHUNK_SIZE,
                   endpoint, calls, fs0, prev_done, keepSum, llmVars, chunkVars, detVars,
                   modelVars, whisperVars, originVars>>
SummaryReuse ==
    /\ pc = "summary"
    /\ fs[SUMMARY_FILE].exists
    /\ final_summary' = read_text_utf8(fs, SUMMARY_FILE)
    /\ st' = Checked("summary", "accepted")
    /\ pc' = "translate"
    /\ UNCHANGED <<run, args_lang, lang, fs, transcript, DEFAULT_CHUNK_SIZE,
                   endpoint, calls, fs0, prev_done, keepSum, llmVars, chunkVars, detVars,
                   modelVars, whisperVars, originVars>>

\* [4/4] summary_final.txt is absent, or the user declines it (unlink): the
\* summary stage starts
SummaryRun ==
    /\ pc = "summary"
    /\ fs' = unlink_declined(fs, SUMMARY_FILE)
    /\ st' = Checked("summary", ToRun(SUMMARY_FILE))
    /\ pc' = "summarize"
    /\ summary_of' = <<>>
    /\ UNCHANGED <<run, args_lang, lang, transcript, final_summary, DEFAULT_CHUNK_SIZE,
                   endpoint, calls, fs0, prev_done, keepSum, llmVars, chunkVars, detVars,
                   modelVars, whisperVars, translation_of>>

\* write_text_utf8(summary_file, final_summary)
SummaryWrite ==
    /\ pc = "summary_write"
    /\ fs' = write_text_utf8(fs, SUMMARY_FILE, final_summary)
    /\ st' = Ran("summary", st["summary"].check)
    /\ pc' = "translate"
    /\ summary_of' = <<transcript>>
    /\ UNCHANGED <<run, args_lang, lang, transcript, final_summary, DEFAULT_CHUNK_SIZE,
                   endpoint, calls, fs0, prev_done, keepSum, llmVars, chunkVars, detVars,
                   modelVars, whisperVars, translation_of>>

\* if lang == "en": is false; GOTOWE
TranslationNotEn_translates ==
    /\ pc = "translate"
    /\ lang # "en"
    /\ \E out \in endpoint :
          /\ calls' = Append(calls, TranslateCallOf(translate_model, final_summary, TRUE, out))
          /\ fs' = write_text_utf8(fs, SUMMARY_PL_FILE, out)
    /\ pc' = "done"
    /\ UNCHANGED <<run, args_lang, lang, transcript, final_summary, DEFAULT_CHUNK_SIZE,
                   endpoint, fs0, st, prev_done, keepSum, llmVars, chunkVars, detVars,
                   modelVars, whisperVars, originVars>>
TranslationNotEn ==
    /\ pc = "translate"
    /\ lang # "en"
    /\ pc' = "done"
    /\ UNCHANGED <<run, args_lang, lang, fs, transcript, final_summary, DEFAULT_CHUNK_SIZE,
                   endpoint, calls, fs0, st, prev_done, keepSum, llmVars, chunkVars,
                   detVars, modelVars, whisperVars, originVars>>

\* summary_final_pl.txt exists and the user accepts it; GOTOWE
TranslationReuse ==
    /\ pc = "translate"
    /\ lang = "en"
    /\ fs[SUMMARY_PL_FILE].exists
    /\ st' = Checked("translation", "accepted")
    /\ pc' = "done"
    /\ UNCHANGED <<run, args_lang, lang, fs, transcript, final_summary, DEFAULT_CHUNK_SIZE,
                   endpoint, calls, fs0, prev_done, keepSum, llmVars, chunkVars, detVars,
                   modelVars, whisperVars, originVars>>

\* summary_final_pl.txt is absent, or the user declines it (unlink), and the
\* user accepts the translation: translate_to_pl; write_text_utf8; GOTOWE
TranslationRun_translates_transcript(out) ==
    /\ pc = "translate"
    /\ lang = "en"
    /\ calls' = Append(calls, TranslateCallOf(translate_model, transcript, TRUE, out))
    /\ fs' = write_text_utf8(unlink_declined(fs, SUMMARY_PL_FILE), SUMMARY_PL_FILE, out)
    /\ st' = Ran("translation", ToRun(SUMMARY_PL_FILE))
    /\ pc' = "done"
    /\ translation_of' = <<final_summary>>
    /\ UNCHANGED <<run, args_lang, lang, transcript, final_summary, DEFAULT_CHUNK_SIZE,
                   endpoint, fs0, prev_done, keepSum, llmVars, chunkVars, detVars,
                   modelVars, whisperVars, summary_of>>
TranslationRun(out) ==
    /\ pc = "translate"
    /\ lang = "en"
    /\ calls' = Append(calls, TranslateCallOf(translate_model, final_summary, TRUE, out))
    /\ fs' = write_text_utf8(unlink_declined(fs, SUMMARY_PL_FILE), SUMMARY_PL_FILE, out)
    /\ st' = Ran("translation", ToRun(SUMMARY_PL_FILE))
    /\ pc' = "done"
    /\ translation_of' = <<final_summary>>
    /\ UNCHANGED <<run, args_lang, lang, transcript, final_summary, DEFAULT_CHUNK_SIZE,
                   endpoint, fs0, prev_done, keepSum, llmVars, chunkVars, detVars,
                   modelVars, whisperVars, summary_of>>

\* the same, translate_to_pl raising
TranslationRaises ==
    /\ pc = "translate"
    /\ lang = "en"
    /\ calls' = Append(calls, TranslateCallOf(translate_model, final_summary, FALSE, <<>>))
    /\ fs' = unlink_declined(fs, SUMMARY_PL_FILE)
    /\ st' = Checked("translation", ToRun(SUMMARY_PL_FILE))
    /\ pc' = "crashed"
    /\ translation_of' = <<>>
    /\ UNCHANGED <<run, args_lang, lang, transcript, final_summary, DEFAULT_CHUNK_SIZE,
                   endpoint, fs0, prev_done, keepSum, llmVars, chunkVars, detVars,
                   modelVars, whisperVars, summary_of>>

\* summary_final_pl.txt is absent, or the user declines it (unlink), and the
\* user answers n to "Przetlumaczyc podsumowanie na polski?"; GOTOWE
TranslationDeclined ==
    /\ pc = "translate"
    /\ lang = "en"
    /\ fs' = unlink_declined(fs, SUMMARY_PL_FILE)
    /\ st' = Checked("translation", ToRun(SUMMARY_PL_FILE))
    /\ pc' = "done"
    /\ translation_of' = <<>>
    /\ UNCHANGED <<run, args_lang, lang, transcript, final_summary, DEFAULT_CHUNK_SIZE,
                   endpoint, calls, fs0, prev_done, keepSum, llmVars, chunkVars, detVars,
                   modelVars, whisperVars, summary_of>>

MainInit ==
    /\ LLMIdle /\ ChunkIdle /\ DetIdle /\ SumIdle
    /\ pc = "off"
    /\ run = 0
    /\ args_lang = "none"
    /\ lang = "none"
    /\ fs = EmptyDir
    /\ transcript = <<>>
    /\ final_summary = <<>>
    /\ DEFAULT_CHUNK_SIZE = 2
    /\ endpoint = VariedEndpoint
    /\ calls = <<>>
    /\ fs0 = EmptyDir
    /\ st = [s \in Stages |-> NotChecked]
    /\ prev_done = FALSE
    /\ models = <<>>
    /\ summary_model = ""
    /\ translate_model = ""
    /\ sample_text = <<>>
    /\ whisper_sample_out = <<>>
    /\ whisper_full_out = <<>>
    /\ summary_of = <<>>
    /\ translation_of = <<>>

MainNext ==
    \/ \E a \in {"none", "en", "pl"} : StartRun(a)
    \/ ToolMissing
    \/ \E listed \in ModelLists : GetModels(listed)
    \/ GetModelsFails
    \/ \E sd \in SummaryDefaults, sr \in Raws, td \in TranslateDefaults, tr \in Raws :
          ChooseModels(sd, sr, td, tr)
    \/ RequireModels
    \/ FileAccepted
    \/ FileRejected
    \/ AudioStage
    \/ ExtractAudioFails
    \/ LangForced
    \/ \E sample \in SampleTexts, biggest \in TxtPaths : LangDetect(sample, biggest)
    \/ LangDetectFails
    \/ TranscriptReuse
    \/ \E full \in FullTexts, biggest \in TxtPaths : TranscriptRun(full, biggest)
    \/ TranscriptFails
    \/ SummaryReuse
    \/ SummaryRun
    \/ SumNext
    \/ SummaryWrite
    \/ TranslationNotEn
    \/ TranslationReuse
    \/ \E out \in endpoint : TranslationRun(out)
    \/ TranslationRaises
    \/ TranslationDeclined

Spec == MainInit /\ [][MainNext]_vars

(***************************************************************************)
(* Claims about call_llm (specification SpecLLM).                          *)
(***************************************************************************)
Always503 == \A k \in 1..Len(outcomes) : outcomes[k].kind = "http" /\ outcomes[k].code = 503

\* C1: for every RETRIES >= 1, against an endpoint that answers every attempt
\* with HTTP 503, call_llm makes exactly RETRIES attempts, sleeps exactly
\* RETRIES-1 times, the k-th sleep being BACKOFF_BASE^k, never sleeps after the
\* last attempt, and ends by raising.
C1_RetryBound ==
    (RETRIES >= 1 /\ Always503) =>
        /\ Len(outcomes) <= RETRIES
        /\ \A k \in 1..Len(sleeps) : sleeps[k] = RatPow(BACKOFF_BASE, k)
        /\ llm_pc = "loop" => Len(outcomes) < RETRIES /\ Len(sleeps) = Len(outcomes)
        /\ llm_pc # "loop" =>
              /\ llm_pc = "raised"
              /\ Len(outcomes) = RETRIES
              /\ Len(sleeps) = RETRIES - 1

C1_Witness ==
    /\ RETRIES = 4
    /\ BACKOFF_BASE = <<3, 2>>
    /\ Always503
    /\ llm_pc = "raised"
    /\ Len(outcomes) = 4
    /\ sleeps = << <<3, 2>>, <<9, 4>>, <<27, 8>> >>

\* Attempt k of the call in progress was followed by another attempt.
Followed(k) == k < Len(outcomes)

FailedHttp(k, statuses) == outcomes[k].kind = "http" /\ outcomes[k].code \in statuses

\* An attempt that failed with a status outside 429/500/503/504 is the last
\* one: the call has raised an error carrying the status and the body, and
\* did not sleep after it.
NonRetryableEndsCall ==
    \A k \in 1..Len(outcomes) :
        FailedHttp(k, HttpErrorStatuses \ RetryableStatuses) =>
            /\ k = Len(outcomes)
            /\ llm_pc = "raised"
            /\ llm_result = HttpRuntimeError(outcomes[k].code, outcomes[k].body)
            /\ Len(sleeps) = k - 1

\* C2 as stated: an attempt is followed by another one only if it failed with
\* a transport failure or with 429/500/503/504 and fewer than RETRIES attempts
\* were made; any other HTTP status ends the call at once.
C2_Original ==
    /\ \A k \in 1..Len(outcomes) :
          Followed(k) =>
              /\ outcomes[k].kind = "transport" \/ FailedHttp(k, RetryableStatuses)
              /\ k < RETRIES
    /\ NonRetryableEndsCall

\* C2 as amended: an attempt is followed by another one only if it failed with
\* a non-HTTP exception (a transport failure, or a response that cannot be
\* decoded or lacks choices[0].message.content) or with 429/500/503/504, and
\* fewer than RETRIES attempts were made; any other HTTP status ends the call
\* at once with an error carrying the status and the body, without a sleep.
C2_RetryOnlyTransient ==
    /\ \A k \in 1..Len(outcomes) :
          Followed(k) =>
              /\ \/ outcomes[k].kind \in {"transport", "malformed"}
                 \/ FailedHttp(k, RetryableStatuses)
              /\ k < RETRIES
              /\ Len(sleeps) >= k
    /\ NonRetryableEndsCall

C2_Witness ==
    /\ Len(outcomes) = 3
    /\ outcomes[1].kind = "malformed"
    /\ FailedHttp(2, {429})
    /\ FailedHttp(3, {404})
    /\ RETRIES = 4
    /\ llm_pc = "raised"
    /\ llm_result = HttpRuntimeError(404, "body2")
    /\ Len(sleeps) = 2

(***************************************************************************)
(* Claims about chunk_text (specification SpecChunk).                      *)
(***************************************************************************)
RECURSIVE Concat(_)
Concat(ss) == IF ss = <<>> THEN <<>> ELSE Head(ss) \o Concat(Tail(ss))

\* C6: for every text and positive size the chunks, concatenated in order,
\* give the text back; every chunk but the last has exactly size symbols, the
\* last has between 1 and size, and there is no chunk iff the text is empty.
C6_ChunkCoverage ==
    ck_pc = "done" =>
        /\ Concat(ck_out) = ck_text
        /\ \A k \in 1..Len(ck_out) - 1 : Len(ck_out[k]) = ck_size
        /\ ck_out # <<>> => Len(ck_out[Len(ck_out)]) \in 1..ck_size
        /\ ck_out = <<>> <=> ck_text = <<>>

C6_Witness ==
    /\ ck_pc = "done"
    /\ ck_size = 3
    /\ ck_text = <<"a", "b", "b", "a">>
    /\ ck_out = << <<"a", "b", "b">>, <<"a">> >>

(***************************************************************************)
(* Claims about the summary stage (specification SpecSum).                 *)
(***************************************************************************)
CallsOf(kinds) == SelectSeq(calls, LAMBDA c : c.kind \in kinds)

AllCallsOk == \A k \in 1..Len(calls) : calls[k].ok

CeilDiv(n, d) == (n + d - 1) \div d

\* summarize_parts is running or has returned, every call having succeeded.
InOrAfterMap == pc \in {"map", "reduce", "summary_write"} /\ AllCallsOk

\* summarize_parts has returned.
AfterMap == pc \in {"reduce", "summary_write"} /\ AllCallsOk

\* summarize_final_two_step has returned.
AfterFinal == pc = "summary_write" /\ AllCallsOk

\* C7: when every completion call succeeds, summarize_parts makes exactly one
\* call per chunk, in chunk order, and returns a list as long as the chunk
\* list whose i-th element is the result of the call made for chunk i.
C7_MapOrder ==
    /\ InOrAfterMap =>
          LET mapCalls == CallsOf({"map"})
          IN  /\ Len(mapCalls) = Len(summaries)
              /\ Len(summaries) <= Len(parts)
              /\ \A i \in 1..Len(mapCalls) :
                    /\ calls[i].kind = "map"
                    /\ calls[i].inputs = <<parts[i]>>
                    /\ calls[i].items = parts[i]
                    /\ summaries[i] = calls[i].out
    /\ AfterMap => Len(summaries) = Len(parts)

C7_Witness ==
    /\ AfterMap
    /\ Len(parts) = 3
    /\ parts = << <<"s1">>, <<"s2">>, <<"s3">> >>
    /\ summaries = << <<"r1">>, <<"r2", "r2", "r2", "r2">>, <<"r1">> >>
    /\ Len(CallsOf({"map"})) = 3

\* The table of section 4.5.
TableGroupSize(n) == IF n <= 6 THEN 3 ELSE IF n <= 12 THEN 4 ELSE 3

\* C8: for n partial summaries group_size is 3 if n <= 6, 4 if 7 <= n <= 12,
\* 3 if n > 12; the groups are consecutive slices of the partials, in order;
\* there are ceil(n / group_size) group calls; every group has group_size
\* partials but the last, which has n mod group_size, or group_size when
\* that is zero.
C8_ReduceGrouping ==
    AfterMap =>
        LET n == Len(summaries)
            gs == TableGroupSize(n)
            groupCalls == CallsOf({"reduce"})
            m == Len(groupCalls)
        IN  /\ group_size = gs
            /\ m <= CeilDiv(n, gs)
            /\ \A k \in 1..m :
                  groupCalls[k].inputs = SubSeq(summaries, (k - 1) * gs + 1, Min(k * gs, n))
            /\ AfterFinal =>
                  /\ m = CeilDiv(n, gs)
                  /\ \A k \in 1..(m - 1) : Len(groupCalls[k].inputs) = gs
                  /\ m > 0 => Len(groupCalls[m].inputs) = (IF n % gs = 0 THEN gs ELSE n % gs)

C8_Witness ==
    /\ AfterFinal
    /\ Len(summaries) = 13
    /\ group_size = 3
    /\ Len(CallsOf({"reduce"})) = 5
    /\ Len(CallsOf({"reduce"})[5].inputs) = 1

\* C9: a successful summary stage over n chunks makes n map calls, then
\* ceil(n / group_size(n)) group calls, then exactly one final call; the
\* final call is given the group results joined in group order and its text
\* is returned unchanged.  One chunk still gets its group call; 9000 symbols
\* in chunks of 4000 get 3 + 1 + 1 calls.
C9_CallOrder ==
    /\ AllCallsOk =>
          \A i, j \in 1..Len(calls) :
              i < j => /\ calls[i].kind # "final"
                       /\ calls[j].kind = "map" => calls[i].kind = "map"
    /\ AfterFinal =>
          LET n == Len(parts)
              m == CeilDiv(n, TableGroupSize(n))
              groupResults == [k \in 1..m |-> calls[n + k].out]
              last == calls[Len(calls)]
          IN  /\ Len(calls) = n + m + 1
              /\ \A i \in 1..n : calls[i].kind = "map"
              /\ \A k \in 1..m : calls[n + k].kind = "reduce"
              /\ last.kind = "final"
              /\ last.inputs = groupResults
              /\ last.items = Join(groupResults)
              /\ last.max_tokens = FINAL_MAX
              /\ final_summary = last.out
              /\ n = 1 => Len(calls) = 3 /\ calls[2].inputs = <<calls[1].out>>
              /\ (Len(transcript) = 9000 /\ DEFAULT_CHUNK_SIZE = 4000) =>
                    /\ Len(calls) = 5
                    /\ [i \in 1..3 |-> Len(parts[i])] = <<4000, 4000, 1000>>

C9_Witness ==
    /\ AfterFinal
    /\ Len(transcript) = 9000
    /\ DEFAULT_CHUNK_SIZE = 4000
    /\ [k \in 1..Len(calls) |-> calls[k].kind] = <<"map", "map", "map", "reduce", "final">>
    /\ final_summary = <<"r2", "r2", "r2", "r2">>

\* The largest group_size of the table: what a group call is given at most.
MaxGroupSize == 4

\* C10: there is a bound, the same for every number of partial summaries,
\* on the number of summaries a call of summarize_final_two_step is given,
\* the group calls and the final call alike: here the bound of the group calls.
C10_BoundedInputs ==
    \A k \in 1..Len(calls) :
        calls[k].kind \in {"reduce", "final"} => Len(calls[k].inputs) <= MaxGroupSize

(***************************************************************************)
(* Claims about the cached pipeline of main (specification Spec).          *)
(***************************************************************************)
\* The run has gone past the stage (and has not been ended by an error).
Past(stage) ==
    IF stage = "transcript"
    THEN pc \in {"summary", "summarize", "map", "reduce", "summary_write", "translate", "done"}
    ELSE IF stage = "summary"
    THEN pc \in {"translate", "done"}
    ELSE pc = "done"

\* The stage found no artifact, or one the user declined to reuse.
MustRun(stage) == st[stage].check \in {"absent", "declined"}

\* C3: after a run that wrote transcript.txt and summary_final.txt, the next
\* invocation, with reuse accepted at every prompt, finds both artifacts at
\* their checks and reuses them, with --lang and with the language detected.
C3_NextRunReuses ==
    (/\ prev_done
     /\ fs0[TRANSCRIPT_FILE].exists /\ fs0[SUMMARY_FILE].exists
     /\ \A s \in Stages : st[s].check # "declined")
    => /\ Past("transcript") =>
             st["transcript"].check = "accepted" /\ ~st["transcript"].ran
       /\ Past("summary") =>
             /\ st["summary"].check = "accepted"
             /\ CallsOf({"map", "reduce", "final"}) = <<>>

\* C4: a stage whose artifact exists at its check and is accepted gives the
\* content the earlier invocation persisted and makes no completion call.
C4_ReuseIsIdentity ==
    /\ st["transcript"].check = "accepted" =>
          /\ transcript = fs0[TRANSCRIPT_FILE].data
          /\ fs0[TRANSCRIPT_FILE].exists
          /\ fs[TRANSCRIPT_FILE] = fs0[TRANSCRIPT_FILE]
          /\ ~st["transcript"].ran
          /\ Past("transcript") /\ pc = "summary" => calls = <<>>
    /\ st["summary"].check = "accepted" =>
          /\ final_summary = fs0[SUMMARY_FILE].data
          /\ fs0[SUMMARY_FILE].exists
          /\ fs[SUMMARY_FILE] = fs0[SUMMARY_FILE]
          /\ ~st["summary"].ran
          /\ CallsOf({"map", "reduce", "final"}) = <<>>
    /\ st["translation"].check = "accepted" =>
          /\ fs0[SUMMARY_PL_FILE].exists
          /\ fs[SUMMARY_PL_FILE] = fs0[SUMMARY_PL_FILE]
          /\ ~st["translation"].ran
          /\ CallsOf({"translate"}) = <<>>

C4_Witness ==
    /\ pc = "done"
    /\ \A s \in Stages : st[s].check = "accepted"
    /\ transcript = <<"the">>
    /\ fs0["audio.txt"].data = <<"the", BadByte>>
    /\ final_summary = <<"r2", "r2", "r2", "r2">>
    /\ calls = <<>>

\* The artifact of the stage holds what the stage computed in this run.
Fresh(stage) ==
    IF stage = "transcript" THEN fs[TRANSCRIPT_FILE] = File(transcript)
    ELSE IF stage = "summary"
    THEN /\ fs[SUMMARY_FILE] = File(final_summary)
         /\ calls # <<>>
         /\ \E k \in 1..Len(calls) :
               calls[k].kind = "final" /\ calls[k].ok /\ calls[k].out = final_summary
    ELSE /\ calls # <<>>
         /\ calls[Len(calls)].kind = "translate"
         /\ calls[Len(calls)].ok
         /\ calls[Len(calls)].inputs = <<final_summary>>
         /\ fs[SUMMARY_PL_FILE] = File(calls[Len(calls)].out)

\* C5 as stated: for each of the three stages, an artifact absent or declined
\* means the stage is run and, the pipeline having moved on, the artifact
\* holds the fresh result.
C5_Original ==
    \A s \in Stages : (MustRun(s) /\ Past(s)) => (st[s].ran /\ Fresh(s))

\* C5 as amended: for the transcript and the summary stage, an artifact absent
\* or declined means the stale artifact is deleted, the stage is run and, the
\* pipeline having moved on, the artifact holds the fresh result.  For the
\* translation stage (reached only when the language tag is "en") the stale
\* artifact is deleted as well, but the stage is run only if the user then
\* accepts the translation prompt; if the user answers n the stage is not run
\* and the artifact is missing.
C5_RunAndPersist ==
    /\ \A s \in {"transcript", "summary"} :
          (MustRun(s) /\ Past(s)) => (st[s].ran /\ Fresh(s))
    /\ (pc \in {"summarize", "map", "reduce", "summary_write"}) =>
          (MustRun("summary") /\ ~fs[SUMMARY_FILE].exists)
    /\ (MustRun("translation") /\ Past("translation")) =>
          /\ lang = "en"
          /\ st["translation"].ran => Fresh("translation")
          /\ ~st["translation"].ran =>
                (~fs[SUMMARY_PL_FILE].exists /\ CallsOf({"translate"}) = <<>>)

C5_Witness ==
    /\ pc = "done"
    /\ fs0[TRANSCRIPT_FILE].exists /\ fs0[SUMMARY_FILE].exists /\ fs0[SUMMARY_PL_FILE].exists
    /\ st["transcript"] = [check |-> "declined", ran |-> TRUE]
    /\ st["summary"] = [check |-> "declined", ran |-> TRUE]
    /\ st["translation"] = [check |-> "declined", ran |-> FALSE]
    /\ fs[TRANSCRIPT_FILE].data # fs0[TRANSCRIPT_FILE].data
    /\ fs[SUMMARY_FILE].data # fs0[SUMMARY_FILE].data
    /\ ~fs[SUMMARY_PL_FILE].exists

\* A completion call of the summary stage.
SummaryKinds == {"map", "reduce", "final"}

\* C11: a completion call of the summary stage (map, group or final) that
\* raises ends the run: it is the last call of the run, main has stopped with
\* the error, no final summary was produced, the summary stage is not marked
\* as run and summary_final.txt was not written (it is absent: the stage runs
\* only when it was absent or has been deleted).
C11_FailureAborts ==
    \A k \in 1..Len(calls) :
        (calls[k].kind \in SummaryKinds /\ ~calls[k].ok) =>
            /\ k = Len(calls)
            /\ pc = "crashed"
            /\ final_summary = <<>>
            /\ ~st["summary"].ran
            /\ ~fs[SUMMARY_FILE].exists

C11_Witness ==
    /\ pc = "crashed"
    /\ fs0[SUMMARY_FILE].exists
    /\ st["summary"].check = "declined"
    /\ Len(parts) = 2
    /\ Len(calls) = 2
    /\ calls[1].kind = "map" /\ calls[1].ok
    /\ calls[2].kind = "map" /\ ~calls[2].ok
    /\ ~fs[SUMMARY_FILE].exists

\* The user was asked "Przetlumaczyc podsumowanie na polski?" and answered n.
TranslationRefused ==
    pc = "done" /\ lang = "en" /\ MustRun("translation") /\ ~st["translation"].ran

\* C12: translate_to_pl is called only when the language tag is "en", the
\* translation artifact is not being reused and the user accepted the
\* translation prompt; when the tag is "en" and the user answered n there is
\* no translation call and no summary_final_pl.txt; when the tag is "pl"
\* there is no translation call and summary_final_pl.txt is not created (if
\* one is there, it is the one the run found).
C12_TranslationGate ==
    /\ CallsOf({"translate"}) # <<>> =>
          /\ lang = "en"
          /\ MustRun("translation")
          /\ st["translation"].ran \/ pc = "crashed"
          /\ Len(CallsOf({"translate"})) = 1
    /\ TranslationRefused =>
          /\ CallsOf({"translate"}) = <<>>
          /\ ~fs[SUMMARY_PL_FILE].exists
    /\ lang = "pl" =>
          /\ CallsOf({"translate"}) = <<>>
          /\ st["translation"] = NotChecked
          /\ fs[SUMMARY_PL_FILE].exists => fs[SUMMARY_PL_FILE] = fs0[SUMMARY_PL_FILE]

C12_Witness ==
    /\ pc = "done"
    /\ lang = "pl"
    /\ st["summary"].ran
    /\ fs0[SUMMARY_PL_FILE].exists
    /\ fs[SUMMARY_PL_FILE] = fs0[SUMMARY_PL_FILE]
    /\ CallsOf({"final"}) # <<>>
    /\ CallsOf({"translate"}) = <<>>

\* A chosen model id is not in the list get_models returned (before the
\* choice, no id is chosen yet).
ChosenModelAbsent ==
    summary_model \notin Range(models) \/ translate_model \notin Range(models)

\* C13: if the chosen summarization or translation model is not in the list
\* returned by /v1/models, main ends before any stage executes and before any
\* call_llm call: it is still at startup, or has ended there, no stage was
\* checked or run, no language tag was set, no file of out_dir was touched and
\* no call was made.  Every completion call is made with a listed model id,
\* the summary stage's with summary_model, the translation's with translate_model.
C13_ModelsValidated ==
    /\ ChosenModelAbsent =>
          /\ pc \in {"off", "startup", "choose", "require", "died", "crashed"}
          /\ calls = <<>>
          /\ fs = fs0
          /\ lang = "none"
          /\ st = [s \in Stages |-> NotChecked]
    /\ \A k \in 1..Len(calls) :
          /\ calls[k].model \in Range(models)
          /\ calls[k].model = (IF calls[k].kind = "translate" THEN translate_model
                               ELSE summary_model)

C13_Witness ==
    /\ pc = "died"
    /\ run = 2
    /\ models = <<BIELIK>>
    /\ summary_model = QWEN
    /\ translate_model = BIELIK
    /\ fs0[TRANSCRIPT_FILE].exists
    /\ fs = fs0
    /\ calls = <<>>

(***************************************************************************)
(* Claims about detect_lang_from_text (specification SpecLang).            *)
(***************************************************************************)
\* The hits of the sample given: Polish diacritics, Polish stop words, English
\* stop words.
Diacritics == Cardinality({ i \in DOMAIN det_sample : det_sample[i] \in {"sie~", "l~"} })
PolishWords ==
    Cardinality({ i \in DOMAIN det_sample : det_sample[i] \in {"nie", "Nie", "sie~"} })
EnglishWords == Cardinality({ i \in DOMAIN det_sample : det_sample[i] \in {"the", "The"} })

\* The scored content of the sample is Polish only, or English only.
OnlyPolish == Diacritics + PolishWords >= 1 /\ EnglishWords = 0
OnlyEnglish == EnglishWords >= 1 /\ Diacritics + PolishWords = 0

\* The tag is "pl" or "en", and "pl" exactly when the score reaches the threshold.
DecidesByScore ==
    /\ det_out \in {"pl", "en"}
    /\ det_out = "pl" <=> 2 * Diacritics + PolishWords >= Max(2, EnglishWords)

\* C14 as stated: the tag is "pl" for every sample whose scored content is
\* Polish stop words and diacritics only (at least one hit), "en" for every
\* sample whose scored content is English stop words only; it is one of the
\* two tags, "pl" exactly when 2*diacritics + polish_words >= max(2, english_words).
C14_Original ==
    det_pc = "done" =>
        /\ OnlyPolish => det_out = "pl"
        /\ OnlyEnglish => det_out = "en"
        /\ DecidesByScore

\* C14 as amended: the tag is "pl" for every sample whose scored content is
\* Polish only and holds a diacritic or two stop-word hits; a sample whose
\* whole scored content is one Polish stop word without a diacritic scores 1,
\* below the floor of 2, and is tagged "en"; the rest as stated.
C14_LangByScore ==
    det_pc = "done" =>
        /\ (OnlyPolish /\ (Diacritics >= 1 \/ PolishWords >= 2)) => det_out = "pl"
        /\ (OnlyPolish /\ Diacritics = 0 /\ PolishWords = 1) => det_out = "en"
        /\ OnlyEnglish => det_out = "en"
        /\ DecidesByScore

C14_Witness ==
    /\ det_pc = "done"
    /\ det_sample = <<"x", "Nie">>
    /\ OnlyPolish
    /\ det_out = "en"

(***************************************************************************)
(* More claims about the pipeline of main (specification Spec).            *)
(***************************************************************************)
\* The summary stage has started computing in this run.
SummaryStarted ==
    pc \in {"summarize", "map", "reduce", "summary_write"} \/ CallsOf(SummaryKinds) # <<>>

\* C15: no stage starts before the artifact of the stage before it is on disk.
\* A full transcription is made with audio.wav there; from the start of the
\* summary computation on, transcript.txt exists and holds main's transcript,
\* and the map calls are given the chunks of that transcript; a translation
\* call is made only with summary_final.txt there, holding the final summary
\* the call is given.
C15_ArtifactBeforeStage ==
    /\ st["transcript"].ran => fs[WAV_PATH].exists
    /\ SummaryStarted =>
          /\ fs[TRANSCRIPT_FILE] = File(transcript)
          /\ \A k \in 1..Len(CallsOf({"map"})) :
                CallsOf({"map"})[k].inputs = <<chunk_text(transcript, DEFAULT_CHUNK_SIZE)[k]>>
    /\ \A k \in 1..Len(calls) :
          calls[k].kind = "translate" =>
              /\ fs[SUMMARY_FILE] = File(final_summary)
              /\ calls[k].inputs = <<final_summary>>

C15_Witness ==
    /\ pc = "done"
    /\ \A s \in Stages : st[s].ran
    /\ Len(CallsOf({"map"})) = 2
    /\ Len(CallsOf({"translate"})) = 1
    /\ transcript = <<"nie", "jest", "nie">>
    /\ fs[TRANSCRIPT_FILE] = File(transcript)
    /\ final_summary = <<"r2", "r2", "r2", "r2">>
    /\ fs[SUMMARY_FILE] = File(final_summary)

\* bytes.decode("utf-8", errors="ignore")
Decoded(data) == SelectSeq(data, LAMBDA b : b # BadByte)

\* The language tag of the run was detected, not forced.
LangDetected == args_lang = "none" /\ lang # "none"

\* C16: in a run without --lang, the text given to detect_lang_from_text is
\* the transcript mlx_whisper wrote for the 60-second sample in that run, and
\* the tag is the tag of that text, whatever out_dir held when the run started.
C16_DetectReadsSample ==
    LangDetected =>
        /\ sample_text = Decoded(whisper_sample_out)
        /\ lang = detect_lang_from_text(Decoded(whisper_sample_out))

\* C17: when the transcript stage runs a full transcription, main's transcript
\* and the content it writes to transcript.txt are the text mlx_whisper wrote
\* for the full audio in that run, whatever the sizes of the other .txt files.
C17_TranscriptIsTranscription ==
    st["transcript"].ran =>
        /\ transcript = Decoded(whisper_full_out)
        /\ fs[TRANSCRIPT_FILE] = File(Decoded(whisper_full_out))

(***************************************************************************)
(* More claims about call_llm (specification SpecLLM).                     *)
(***************************************************************************)
\* C18: for every RETRIES, zero and negative included, call_llm returns only
\* the message content of a well-formed response it received, the last
\* attempt's; otherwise it raises.
C18_ReturnsOnlyContent ==
    /\ llm_pc \in {"loop", "returned", "raised"}
    /\ llm_pc = "returned" =>
          /\ outcomes # <<>>
          /\ outcomes[Len(outcomes)].kind = "ok"
          /\ llm_result = Returned(outcomes[Len(outcomes)].body)
    /\ llm_pc = "raised" => llm_result.kind \in {"http_error", "error"}

\* Attempt k of the call failed with an exception that is not an HTTPError
\* of the given kind.
FailedWith(k, kind) == outcomes[k].kind = kind

\* Attempt k was retried: the call slept BACKOFF_BASE^k and went on to attempt k + 1.
RetriedWithBackoff(k) ==
    /\ Len(sleeps) >= k
    /\ sleeps[k] = RatPow(BACKOFF_BASE, k)
    /\ Followed(k) \/ (llm_pc = "loop" /\ attempt = k + 1)

\* Attempt k was the last: the call raised RuntimeError without a sleep.
RaisedAtLast(k, kind) ==
    /\ k = Len(outcomes)
    /\ llm_pc = "raised"
    /\ llm_result = OtherRuntimeError(kind)
    /\ Len(sleeps) = k - 1

\* C20: an attempt answered 200 with a body that does not decode or lacks
\* choices[0].message.content is handled as a transport failure is: retried
\* after a sleep of BACKOFF_BASE^attempt while attempt < RETRIES, raised as an
\* error at the last attempt; the call returns no value taken from it.
C20_MalformedAsTransport ==
    \A k \in 1..Len(outcomes) :
        \A kind \in {"malformed", "transport"} :
            FailedWith(k, kind) =>
                /\ k <= RETRIES
                /\ k < RETRIES => RetriedWithBackoff(k)
                /\ k = RETRIES => RaisedAtLast(k, kind)
                /\ llm_pc = "returned" =>
                      /\ Followed(k)
                      /\ llm_result = Returned(outcomes[Len(outcomes)].body)
                      /\ outcomes[Len(outcomes)].kind = "ok"

C20_Witness ==
    /\ RETRIES = 3
    /\ BACKOFF_BASE = <<2, 1>>
    /\ Len(outcomes) = 3
    /\ \A k \in 1..3 : FailedWith(k, "malformed")
    /\ sleeps = << <<2, 1>>, <<4, 1>> >>
    /\ llm_pc = "raised"
    /\ llm_result = OtherRuntimeError("malformed")

(***************************************************************************)
(* Claims about what the artifacts were derived from (specification Spec). *)
(***************************************************************************)
\* summary_final.txt was computed from the transcript of this run;
\* summary_final_pl.txt was translated from the final summary of this run.
SummaryOfRunTranscript == summary_of = <<transcript>>
TranslationOfRunSummary == translation_of = <<final_summary>>

\* C19 as stated: at the end of a successful run, whatever was answered at the
\* three reuse prompts, summary_final.txt is the summary of the run's
\* transcript and summary_final_pl.txt, when present, is the translation of
\* the run's final summary.
C19_Original ==
    pc = "done" =>
        /\ fs[SUMMARY_FILE].exists /\ SummaryOfRunTranscript
        /\ fs[SUMMARY_PL_FILE].exists => TranslationOfRunSummary

\* C19 as amended: at the end of a successful run, an artifact the run
\* computed was derived from the upstream content the run used: if the
\* summary stage ran, its map calls were given the chunks of the run's
\* transcript and summary_final.txt holds the final call's text; if the
\* translation ran, it was given the run's final summary, which is what
\* summary_final.txt holds, and summary_final_pl.txt holds its text.  An
\* artifact that was reused, or left alone, is not compared with the run's
\* upstream content.
C19_FreshDerivedFromRun ==
    pc = "done" =>
        /\ fs[SUMMARY_FILE] = File(final_summary)
        /\ st["summary"].ran =>
              /\ SummaryOfRunTranscript
              /\ \A k \in 1..Len(CallsOf({"map"})) :
                    CallsOf({"map"})[k].inputs = <<chunk_text(transcript, DEFAULT_CHUNK_SIZE)[k]>>
              /\ Len(CallsOf({"map"})) = Len(chunk_text(transcript, DEFAULT_CHUNK_SIZE))
              /\ CallsOf({"final"}) # <<>>
              /\ CallsOf({"final"})[1].out = final_summary
        /\ st["translation"].ran =>
              /\ TranslationOfRunSummary
              /\ CallsOf({"translate"}) # <<>>
              /\ CallsOf({"translate"})[1].inputs = <<final_summary>>
              /\ fs[SUMMARY_PL_FILE] = File(CallsOf({"translate"})[1].out)

C19_Witness ==
    /\ pc = "done"
    /\ run = 2
    /\ st["transcript"] = [check |-> "declined", ran |-> TRUE]
    /\ st["summary"] = [check |-> "accepted", ran |-> FALSE]
    /\ st["translation"] = [check |-> "declined", ran |-> TRUE]
    /\ args_lang = "en"
    /\ transcript = Decoded(whisper_full_out)
    /\ transcript # fs0[TRANSCRIPT_FILE].data
    /\ ~SummaryOfRunTranscript
    /\ TranslationOfRunSummary

====
